---------------------------- MODULE Spec2Model ----------------------------
(***************************************************************************)
(* A model of gounion, the analyzer that checks exhaustiveness of Go type  *)
(* switches on union interfaces (interfaces sealed by an unexported        *)
(* marker method).                                                         *)
(*                                                                         *)
(* The analysis driver runs `run` once per package, a package after the    *)
(* packages it imports.  `run` is exportUnionFacts (phase 1) followed by   *)
(* checkTypeSwitches (phase 2), whose callback is invoked once per type    *)
(* switch statement of the package.                                        *)
(*                                                                         *)
(* Strings are sequences of byte values, compared as Go compares strings.  *)
(***************************************************************************)
EXTENDS Integers, Sequences, FiniteSets, TLC

(***************************************************************************)
(* Bounds of the model.                                                    *)
(***************************************************************************)
\* Concrete types declared by the package that declares the interface.
NumTypes == 2
\* Type expressions listed in the case clauses of one type switch.
MaxArms == 2
\* Statements in the body of a default clause.
MaxBody == 2
\* Result expressions of a return statement.
MaxResults == 2
\* Methods an interface declares.
MaxMethods == 2

(***************************************************************************)
(* Bytes the code writes into identifiers and messages.                    *)
(***************************************************************************)
\* '*', the pointer marker of a member: "*"+typeName.Name()
StarByte == 42
\* '.', between package name and member: unionPkg.Name()+"."+member
DotByte == 46
\* ',' and ' ', the separator of strings.Join(missing, ", ")
CommaByte == 44
SpaceByte == 32
\* ':' of the message format "... on %s: %s"
ColonByte == 58

\* The packages of the analysed program, as in TestAnalyzer: "union"
\* declares the interface, "consumer" may import it.
Pkgs == {"union", "consumer"}

(***************************************************************************)
(* Strings.                                                                *)
(***************************************************************************)
\* Go's s < t on strings: byte-wise lexicographic, a proper prefix first.
LexLess(s, t) ==
    \E k \in 1..Len(t) :
        /\ k <= Len(s) + 1
        /\ \A j \in 1..(k - 1) : s[j] = t[j]
        /\ (k = Len(s) + 1 \/ s[k] < t[k])

RECURSIVE InsertSorted(_, _)
InsertSorted(x, s) ==
    IF s = <<>> THEN <<x>>
    ELSE IF LexLess(x, Head(s)) THEN <<x>> \o s
    ELSE <<Head(s)>> \o InsertSorted(x, Tail(s))

\* sort.Strings: the ascending permutation of the slice (duplicates kept).
RECURSIVE SortStrings(_)
SortStrings(s) ==
    IF s = <<>> THEN <<>> ELSE InsertSorted(Head(s), SortStrings(Tail(s)))

\* strings.Join(elems, sep)
RECURSIVE Join(_, _)
Join(elems, sep) ==
    IF elems = <<>> THEN <<>>
    ELSE IF Len(elems) = 1 THEN elems[1]
    ELSE elems[1] \o sep \o Join(Tail(elems), sep)

\* "missing cases in type switch on "
MsgPrefix ==
    << 109, 105, 115, 115, 105, 110, 103, 32, 99, 97, 115, 101, 115, 32,
       105, 110, 32, 116, 121, 112, 101, 32, 115, 119, 105, 116, 99, 104,
       32, 111, 110, 32 >>

\* fmt.Sprintf("missing cases in type switch on %s: %s", name, list)
FormatMessage(name, list) ==
    MsgPrefix \o name \o <<ColonByte, SpaceByte>> \o list

(***************************************************************************)
(* The analysed program: packages, their imports and declarations.         *)
(***************************************************************************)
\* The i-th identifier over the letters A, B: A, B, AA, AB, BA, ...
RECURSIVE NameOf(_)
NameOf(i) ==
    IF i <= 2 THEN <<64 + i>>
    ELSE NameOf((i - 1) \div 2) \o <<65 + ((i - 1) % 2)>>

\* types.Package.Name() as a string of bytes.
PkgName(p) ==
    IF p = "union" THEN <<117, 110, 105, 111, 110>>
    ELSE <<99, 111, 110, 115, 117, 109, 101, 114>>

\* "S", the name of the declared interface.
IfaceName == <<83>>
\* "isS", an unexported method without parameters and results.
MarkerName == <<105, 115, 83>>
\* "Do", an exported method.
ExportedName == <<68, 111>>

Method(n, np, nr) == [name |-> n, params |-> np, results |-> nr]

\* The method lists of the declared interface, in the order of
\* types.Interface.Method(i), which is sorted by name.
IfaceShapes ==
    { << Method(MarkerName, 0, 0) >>,
      << Method(ExportedName, 0, 0) >> }

\* A method in the method set of a concrete type: the package its name
\* belongs to, its name, the receiver form ("value": in the method set of
\* T and of *T; "pointer": in that of *T only), and the numbers of
\* parameters and results.
TypeMethod(pkg, n, recv, np, nr) ==
    [pkg |-> pkg, name |-> n, recv |-> recv, params |-> np, results |-> nr]

\* The methods a concrete type of "union" declares.
KindMethods(k) ==
    CASE k = "value" -> {TypeMethod("union", MarkerName, "value", 0, 0)}
      [] k = "pointer" -> {TypeMethod("union", MarkerName, "pointer", 0, 0)}
      [] OTHER -> {}

TypeKinds == {"value", "pointer", "plain"}

EmptyDecl == [ifaces |-> {}, types |-> {}]

\* The declarations of the package that declares the interface.
HomeDecls ==
    { [ifaces |-> {[name |-> IfaceName, methods |-> ms]},
       types |-> {[name |-> NameOf(i), methods |-> KindMethods(k[i])]
                     : i \in 1..NumTypes}]
        : ms \in IfaceShapes, k \in [1..NumTypes -> TypeKinds] }

\* types.Object.Exported: the name starts with an upper-case letter.
Exported(name) == name[1] \in 65..90

\* types.Func.Id() of a method of an interface of package q: the name when
\* it is exported, else the path of the package, ".", and the name.
MethodId(q, m) ==
    IF Exported(m.name) THEN m.name ELSE PkgName(q) \o <<DotByte>> \o m.name

\* The methods of a set in the order of types.Interface.Method(i): sorted
\* by Id.
RECURSIVE InterfaceMethods(_, _)
InterfaceMethods(q, S) ==
    IF S = {} THEN <<>>
    ELSE LET first == CHOOSE m \in S :
                        \A n \in S : n = m \/ LexLess(MethodId(q, m), MethodId(q, n))
         IN  <<first>> \o InterfaceMethods(q, S \ {first})

\* "T", the name of a second interface.
OtherIfaceName == <<84>>
\* "isT", an unexported method without parameters and results.
OtherMarkerName == <<105, 115, 84>>
\* "get", an unexported method with a result.
GetName == <<103, 101, 116>>
\* "set", an unexported method with a parameter.
SetName == <<115, 101, 116>>

\* The methods the declared interfaces are made of: Do(), get() int,
\* isS(), isT(), set(int).
MethodPool ==
    { Method(ExportedName, 0, 0), Method(GetName, 0, 1), Method(MarkerName, 0, 0),
      Method(OtherMarkerName, 0, 0), Method(SetName, 1, 0) }

\* The method lists of an interface of package q with at most MaxMethods
\* methods, the interface without methods included.
MethodLists(q) ==
    { InterfaceMethods(q, S)
        : S \in { M \in SUBSET MethodPool : Cardinality(M) <= MaxMethods } }

\* The method sets of the concrete types of package q: the kinds of
\* TypeKinds, "args" (a method with the marker's name and a parameter),
\* "other" (the second marker method).
DeclKinds == TypeKinds \cup {"args", "other"}

DeclMethods(q, k) ==
    CASE k = "value" -> {TypeMethod(q, MarkerName, "value", 0, 0)}
      [] k = "pointer" -> {TypeMethod(q, MarkerName, "pointer", 0, 0)}
      [] k = "args" -> {TypeMethod(q, MarkerName, "value", 1, 0)}
      [] k = "other" -> {TypeMethod(q, OtherMarkerName, "value", 0, 0)}
      [] OTHER -> {}

\* The declarations of "union" with one or two interfaces: S with any
\* method list, and T, if declared, with one of the marker methods.
ScanDecls ==
    { [ifaces |-> {[name |-> IfaceName, methods |-> ms]} \cup second,
       types |-> {[name |-> NameOf(i), methods |-> DeclMethods("union", k[i])]
                     : i \in 1..NumTypes}]
        : ms \in MethodLists("union"),
          second \in { {},
                       {[name |-> OtherIfaceName, methods |-> <<Method(MarkerName, 0, 0)>>]},
                       {[name |-> OtherIfaceName, methods |-> <<Method(OtherMarkerName, 0, 0)>>]} },
          k \in [1..NumTypes -> DeclKinds] }

\* The method sets of the types of PairDecls.
PairKinds == {"value", "pointer", "other"}

\* The declarations of "union" with two sealed interfaces: S with the
\* marker isS, and T with the marker isS or isT.
PairDecls ==
    { [ifaces |-> {[name |-> IfaceName, methods |-> <<Method(MarkerName, 0, 0)>>],
                   [name |-> OtherIfaceName, methods |-> <<Method(mk, 0, 0)>>]},
       types |-> {[name |-> NameOf(i), methods |-> DeclMethods("union", k[i])]
                     : i \in 1..NumTypes}]
        : mk \in {MarkerName, OtherMarkerName},
          k \in [1..NumTypes -> PairKinds] }

\* The declarations of "consumer": none; an interface S sealed by the
\* method isS of "consumer", with the types A (no method) and B (that
\* method on the pointer); and, when "union" is imported, a type A that
\* embeds a type of "union" and has its method isS by promotion.
ConsumerDecls(g) ==
    { EmptyDecl,
      [ifaces |-> {[name |-> IfaceName, methods |-> <<Method(MarkerName, 0, 0)>>]},
       types |-> {[name |-> NameOf(1), methods |-> {}],
                  [name |-> NameOf(2),
                   methods |-> {TypeMethod("consumer", MarkerName, "pointer", 0, 0)}]}] }
        \cup
    (IF "union" \in g
     THEN { [ifaces |-> {},
             types |-> {[name |-> NameOf(1),
                         methods |-> {TypeMethod("union", MarkerName, "value", 0, 0)}]}] }
     ELSE {})

\* The declarations of a "consumer" that imports "union": the types A and
\* B, or one of them, each embedding a type of "union" that has the
\* method isS, which the embedding type has by promotion.
EmbedDecls ==
    { [ifaces |-> {},
       types |-> {[name |-> NameOf(i),
                   methods |-> {TypeMethod("union", MarkerName, "value", 0, 0)}]
                     : i \in I}]
        : I \in (SUBSET (1..2)) \ {{}} }

\* Import graphs: "consumer" imports "union" or nothing.
ImportGraphs ==
    { [p \in Pkgs |-> IF p = "consumer" THEN g ELSE {}] : g \in SUBSET {"union"} }

VARIABLES
    imports,    \* imports[p]: the packages p imports directly
    decls,      \* decls[p]: the interface and concrete type declarations of p
    pc,         \* pc[p]: where the pass over p stands
    facts,      \* the exported UnionInterface facts, by interface object
    exports,    \* the passes that called ExportObjectFact, by interface object
    site,       \* site[p]: the type switch the callback of p is on, with
                \* what the callback did
    missed,     \* the interface objects a fact import found no fact for
    cls         \* the default clause classified last (classifier runs)

vars == <<imports, decls, pc, facts, exports, site, missed, cls>>

NoSite == [visited |-> FALSE]
NoCls == [classified |-> FALSE]

\* The packages p depends on, directly or not.
RECURSIVE TransDeps(_)
TransDeps(p) == imports[p] \cup UNION { TransDeps(q) : q \in imports[p] }

(***************************************************************************)
(* Phase 1: union.go                                                       *)
(***************************************************************************)
\* A faulty variant of findMarkerMethodFrom: the number of results is not
\* looked at.
RECURSIVE findMarkerMethodAnyResults(_, _)
findMarkerMethodAnyResults(methods, i) ==
    IF i > Len(methods) THEN <<>>
    ELSE IF Exported(methods[i].name) THEN findMarkerMethodAnyResults(methods, i + 1)
    ELSE IF methods[i].params # 0 THEN findMarkerMethodAnyResults(methods, i + 1)
    ELSE methods[i].name

RECURSIVE findMarkerMethodFrom(_, _)
findMarkerMethodFrom(methods, i) ==
    IF i > Len(methods) THEN <<>>
    ELSE IF Exported(methods[i].name) THEN findMarkerMethodFrom(methods, i + 1)
    ELSE IF methods[i].params # 0 THEN findMarkerMethodFrom(methods, i + 1)
    ELSE IF methods[i].results # 0 THEN findMarkerMethodFrom(methods, i + 1)
    ELSE methods[i].name

\* The name of the first unexported method without parameters and results,
\* "" when there is none.
findMarkerMethod(methods) == findMarkerMethodFrom(methods, 1)

\* types.NewMethodSet(typ).Lookup(pkg, markerMethod) != nil, for typ the
\* declared type (ptr = FALSE) or the pointer to it (ptr = TRUE).  Lookup
\* finds a method by its name, qualified by pkg when the name is not
\* exported; it does not look at the signature.
hasMarkerMethod(pkg, decl, ptr, markerMethod) ==
    \E m \in decl.methods :
        /\ m.name = markerMethod
        /\ (Exported(m.name) \/ m.pkg = pkg)
        /\ (m.recv = "value" \/ ptr)

\* The least string of a non-empty set.
MinString(S) == CHOOSE x \in S : \A y \in S : y = x \/ LexLess(x, y)

RECURSIVE SortedSeqOfSet(_)
SortedSeqOfSet(S) ==
    IF S = {} THEN <<>>
    ELSE <<MinString(S)>> \o SortedSeqOfSet(S \ {MinString(S)})

\* pass.Pkg.Scope().Names(): the names of the package scope, sorted.
ScopeNames(p) ==
    SortedSeqOfSet({d.name : d \in decls[p].ifaces \cup decls[p].types})

\* A faulty variant of MemberOf: a type is appended only if it, or the
\* pointer to it, has every method of the interfaces of p that have the
\* marker method, with the signature the interface gives it.
MemberOfImplementing(p, name, markerMethod) ==
    IF \E d \in decls[p].ifaces : d.name = name THEN <<>>
    ELSE LET d == CHOOSE t \in decls[p].types : t.name = name
             has(ptr) ==
                 \A e \in { f \in decls[p].ifaces :
                               findMarkerMethod(f.methods) = markerMethod } :
                     \A i \in DOMAIN e.methods :
                         \E m \in d.methods :
                             /\ m.name = e.methods[i].name
                             /\ (Exported(m.name) \/ m.pkg = p)
                             /\ m.params = e.methods[i].params
                             /\ m.results = e.methods[i].results
                             /\ (m.recv = "value" \/ ptr)
         IN  IF has(FALSE) THEN <<name>>
             ELSE IF has(TRUE) THEN << <<StarByte>> \o name >>
             ELSE <<>>

\* A faulty variant of MemberOf: the pointer form is tested first, and the
\* method set of *T holds the methods of T.
MemberOfPointerFirst(p, name, markerMethod) ==
    IF \E d \in decls[p].ifaces : d.name = name THEN <<>>
    ELSE LET d == CHOOSE t \in decls[p].types : t.name = name
         IN  IF hasMarkerMethod(p, d, TRUE, markerMethod)
             THEN << <<StarByte>> \o name >>
             ELSE IF hasMarkerMethod(p, d, FALSE, markerMethod) THEN <<name>>
             ELSE <<>>

\* One iteration of the loop over scope.Names(): what the name appends to
\* members.  An interface appends nothing; a type appends its name if the
\* type has the method, else "*"+name if the pointer to it has, else
\* nothing.
MemberOf(p, name, markerMethod) ==
    IF \E d \in decls[p].ifaces : d.name = name THEN <<>>
    ELSE LET d == CHOOSE t \in decls[p].types : t.name = name
         IN  IF hasMarkerMethod(p, d, FALSE, markerMethod) THEN <<name>>
             ELSE IF hasMarkerMethod(p, d, TRUE, markerMethod)
                  THEN << <<StarByte>> \o name >>
             ELSE <<>>

RECURSIVE collectMembers(_, _, _)
collectMembers(p, names, markerMethod) ==
    IF names = <<>> THEN <<>>
    ELSE MemberOf(p, Head(names), markerMethod)
             \o collectMembers(p, Tail(names), markerMethod)

\* A faulty variant of findUnionMembers: the members as the loop appended
\* them, without sort.Strings.
findUnionMembersNoSort(p, markerMethod) ==
    collectMembers(p, ScopeNames(p), markerMethod)

findUnionMembers(p, markerMethod) ==
    SortStrings(collectMembers(p, ScopeNames(p), markerMethod))

FactKey(p, name) == [pkg |-> p, name |-> name]

\* A faulty variant of unionInterfaces: the interface declarations of the
\* packages p imports are recorded as well.
unionInterfacesWithImports(p) ==
    UNION { { [key |-> FactKey(q, d.name), marker |-> findMarkerMethod(d.methods)]
                : d \in { e \in decls[q].ifaces : findMarkerMethod(e.methods) # <<>> } }
            : q \in {p} \cup imports[p] }

\* The map unionInterfaces: the interface declarations of p that have a
\* marker method, each with the name of that method.
unionInterfaces(p) ==
    { [key |-> FactKey(p, d.name), marker |-> findMarkerMethod(d.methods)]
        : d \in { e \in decls[p].ifaces : findMarkerMethod(e.methods) # <<>> } }

\* The orders in which a range statement can visit the entries of a map:
\* every enumeration of the entries.
MapOrders(S) ==
    { f \in [1..Cardinality(S) -> S] : \A x \in S : \E i \in DOMAIN f : f[i] = x }

\* The calls of pass.ExportObjectFact made by the loop over unionInterfaces
\* when it visits the entries in the given order: the object, the pass
\* that exports, and the fact.
exportCalls(p, order) ==
    [ i \in DOMAIN order |->
        [key |-> order[i].key,
         by |-> p,
         fact |-> [MarkerMethod |-> order[i].marker,
                   Members |-> findUnionMembers(p, order[i].marker)]] ]

\* pass.ExportObjectFact(obj, fact): the store holds the fact for the
\* object; an entry the object had is replaced.
ExportObjectFact(store, call) ==
    [ k \in DOMAIN store \cup {call.key} |->
        IF k = call.key THEN call.fact ELSE store[k] ]

RECURSIVE exportAll(_, _)
exportAll(store, calls) ==
    IF calls = <<>> THEN store
    ELSE exportAll(ExportObjectFact(store, Head(calls)), Tail(calls))

\* A faulty variant of exportUnionFacts: one UnionInterface value is
\* written in every iteration and exported by pointer, so that every
\* object has the fact of the last iteration.
exportUnionFactsSharedFact(p, order) ==
    LET calls == exportCalls(p, order)
    IN  exportAll(facts,
                  [ i \in DOMAIN calls |->
                      [calls[i] EXCEPT !.fact = calls[Len(calls)].fact] ])

\* The fact store after exportUnionFacts(pass p), the loop over the map
\* having visited its entries in the given order.
exportUnionFacts(p, order) == exportAll(facts, exportCalls(p, order))

\* The record of the ExportObjectFact calls of the run, by object: the
\* passes that exported a fact for it, in the order of the calls.
RECURSIVE recordCalls(_, _)
recordCalls(log, calls) ==
    IF calls = <<>> THEN log
    ELSE LET c == Head(calls)
             was == IF c.key \in DOMAIN log THEN log[c.key] ELSE <<>>
         IN  recordCalls([ k \in DOMAIN log \cup {c.key} |->
                             IF k = c.key THEN Append(was, c.by) ELSE log[k] ],
                         Tail(calls))

(***************************************************************************)
(* Type expressions, as go/types resolves them.                            *)
(***************************************************************************)
\* A defined (named) type of package p.
NamedT(p, n) == [form |-> "named", pkg |-> p, name |-> n]
\* A pointer to a defined type of package p.
PointerT(p, n) == [form |-> "pointer", pkg |-> p, name |-> n]
\* The interface literal interface{}: neither named nor a pointer.
EmptyIfaceT == [form |-> "literal", pkg |-> "", name |-> <<>>]

\* types.TypeString(interface{}, nil) = "interface{}"
EmptyIfaceString == <<105, 110, 116, 101, 114, 102, 97, 99, 101, 123, 125>>

(***************************************************************************)
(* Statements of a default clause, as far as the classifier reads them.    *)
(***************************************************************************)
\* A result expression of a return statement:
\*   nilIdent  the expression is the identifier nil
\*   typed     pass.TypesInfo.Types has an entry for it
\*   impl      types.Implements(type, error)
\*   ptrImpl   types.Implements(pointer to type, error)
Result(n, t, i, pi) == [nilIdent |-> n, typed |-> t, impl |-> i, ptrImpl |-> pi]

NilResult == Result(TRUE, TRUE, FALSE, FALSE)        \* nil
ErrResult == Result(FALSE, TRUE, TRUE, FALSE)        \* errors.New("x")
PtrErrResult == Result(FALSE, TRUE, FALSE, TRUE)     \* T{}, Error on *T
PlainResult == Result(FALSE, TRUE, FALSE, FALSE)     \* 0
UntypedResult == Result(FALSE, FALSE, FALSE, FALSE)  \* no type recorded

ResultKinds == {NilResult, ErrResult, PtrErrResult, PlainResult, UntypedResult}

\* A statement:
\*   kind    "expr" (*ast.ExprStmt), "return" (*ast.ReturnStmt), "other"
\*   call    the expression of an ExprStmt is a *ast.CallExpr
\*   ident   the called function is an *ast.Ident
\*   name    the name of that identifier
\*   arg     the argument of the call: "lit" (a literal), "call" (a call),
\*           "" when the statement is not a call
\*   results the results of a ReturnStmt
Stmt(k, c, i, n, a, r) ==
    [kind |-> k, call |-> c, ident |-> i, name |-> n, arg |-> a, results |-> r]

PanicStmt == Stmt("expr", TRUE, TRUE, "panic", "lit", <<>>)    \* panic("x")
\* panic(fmt.Sprintf("%T", s))
PanicSprintfStmt == Stmt("expr", TRUE, TRUE, "panic", "call", <<>>)
FailStmt == Stmt("expr", TRUE, TRUE, "fail", "lit", <<>>)      \* fail("x")
PrintlnStmt == Stmt("expr", TRUE, FALSE, "", "lit", <<>>)      \* fmt.Println("x")
RecvStmt == Stmt("expr", FALSE, FALSE, "", "", <<>>)           \* <-done
AssignStmt == Stmt("other", FALSE, FALSE, "", "", <<>>)        \* x = 1
ReturnStmt(rs) == Stmt("return", FALSE, FALSE, "", "", rs)     \* return rs...

SeqsUpTo(S, n) == UNION { [1..k -> S] : k \in 0..n }

Stmts ==
    {PanicStmt, PanicSprintfStmt, FailStmt, PrintlnStmt, RecvStmt, AssignStmt}
        \cup { ReturnStmt(rs) : rs \in SeqsUpTo(ResultKinds, MaxResults) }

\* Statements that precede the last one in the bodies that are enumerated.
LeadingStmts ==
    {PanicStmt, PrintlnStmt, AssignStmt, ReturnStmt(<<PlainResult, ErrResult>>)}

\* The statements before the last one.
Leads == SeqsUpTo(LeadingStmts, MaxBody - 1)

\* The bodies of default clauses that are enumerated.
Bodies ==
    {<<>>} \cup { lead \o <<last>> : lead \in Leads, last \in Stmts }

\* A default clause, or its absence.
NoDefault == [present |-> FALSE, body |-> <<>>]
Default(body) == [present |-> TRUE, body |-> body]

(***************************************************************************)
(* Phase 2: exhaustive.go                                                  *)
(***************************************************************************)
\* getDefaultCaseClause(stmt) != nil
hasDefaultCase(dflt) == dflt.present

\* A faulty variant of getDefaultCaseLastStmt: the first statement of the
\* body instead of the last.
getDefaultCaseFirstStmt(dflt) ==
    IF ~dflt.present \/ Len(dflt.body) = 0 THEN <<>>
    ELSE <<dflt.body[1]>>

\* The last statement of the default clause as a sequence of at most one
\* statement: empty (nil) without a default clause or with an empty body.
getDefaultCaseLastStmt(dflt) ==
    IF ~dflt.present \/ Len(dflt.body) = 0 THEN <<>>
    ELSE <<dflt.body[Len(dflt.body)]>>

\* A faulty variant of defaultCaseOnlyPanics: the name of the called
\* identifier is not compared with "panic".
defaultCaseCallsIdent(dflt) ==
    LET s == getDefaultCaseLastStmt(dflt)
    IN  IF s = <<>> THEN FALSE
        ELSE IF s[1].kind # "expr" THEN FALSE
        ELSE IF ~s[1].call THEN FALSE
        ELSE s[1].ident

defaultCaseOnlyPanics(dflt) ==
    LET s == getDefaultCaseLastStmt(dflt)
    IN  IF s = <<>> THEN FALSE
        ELSE IF s[1].kind # "expr" THEN FALSE
        ELSE IF ~s[1].call THEN FALSE
        ELSE IF ~s[1].ident THEN FALSE
        ELSE s[1].name = "panic"

\* The loop over retStmt.Results: TRUE at the first result that is not the
\* identifier nil, has a recorded type, and whose type or pointer type
\* implements error.
RECURSIVE anyErrorResult(_, _)
anyErrorResult(results, i) ==
    IF i > Len(results) THEN FALSE
    ELSE IF results[i].nilIdent THEN anyErrorResult(results, i + 1)
    ELSE IF ~results[i].typed THEN anyErrorResult(results, i + 1)
    ELSE IF results[i].impl \/ results[i].ptrImpl THEN TRUE
    ELSE anyErrorResult(results, i + 1)

\* A faulty variant of defaultCaseOnlyReturnsError: the pointer to the
\* result type is not tried.
defaultCaseReturnsErrorValue(dflt) ==
    LET s == getDefaultCaseLastStmt(dflt)
    IN  IF s = <<>> THEN FALSE
        ELSE IF s[1].kind # "return" THEN FALSE
        ELSE \E i \in 1..Len(s[1].results) :
                ~s[1].results[i].nilIdent /\ s[1].results[i].typed
                    /\ s[1].results[i].impl

defaultCaseOnlyReturnsError(dflt) ==
    LET s == getDefaultCaseLastStmt(dflt)
    IN  IF s = <<>> THEN FALSE
        ELSE IF s[1].kind # "return" THEN FALSE
        ELSE anyErrorResult(s[1].results, 1)

\* A faulty variant of skipsExhaustiveness: any default clause skips the
\* check.
skipsWithAnyDefault(dflt) == hasDefaultCase(dflt)

\* A faulty variant of skipsExhaustiveness: the negations are lost.
skipsOnSafetyGuard(dflt) ==
    /\ hasDefaultCase(dflt)
    /\ (defaultCaseOnlyPanics(dflt) \/ defaultCaseOnlyReturnsError(dflt))

\* The condition under which the callback returns without checking.
skipsExhaustiveness(dflt) ==
    /\ hasDefaultCase(dflt)
    /\ ~defaultCaseOnlyPanics(dflt)
    /\ ~defaultCaseOnlyReturnsError(dflt)

\* A faulty variant of formatTypeForComparison: the pointer marker is not
\* written.
formatTypeWithoutStar(t) ==
    CASE t.form = "pointer" -> t.name
      [] t.form = "named" -> t.name
      [] OTHER -> EmptyIfaceString

formatTypeForComparison(t) ==
    CASE t.form = "pointer" -> <<StarByte>> \o t.name
      [] t.form = "named" -> t.name
      [] OTHER -> EmptyIfaceString

\* The slice handled: one string per case type, in clause order.
collectCaseTypes(arms) ==
    [ i \in 1..Len(arms) |-> formatTypeForComparison(arms[i]) ]

RECURSIVE missingFrom(_, _, _)
missingFrom(members, handledSet, pkgName) ==
    IF members = <<>> THEN <<>>
    ELSE (IF Head(members) \notin handledSet
          THEN << pkgName \o <<DotByte>> \o Head(members) >>
          ELSE <<>>)
         \o missingFrom(Tail(members), handledSet, pkgName)

\* A faulty variant of findMissingTypes: the loop stops at the first
\* missing member.
findFirstMissingType(members, handled, pkgName) ==
    LET all == missingFrom(members, { handled[i] : i \in 1..Len(handled) }, pkgName)
    IN  IF all = <<>> THEN <<>> ELSE <<all[1]>>

findMissingTypes(members, handled, pkgName) ==
    missingFrom(members, { handled[i] : i \in 1..Len(handled) }, pkgName)

\* A faulty variant of membersAfterFindMissingTypes: the missing members
\* are collected in members[:0], over the elements of members.
membersFilteredInPlace(members, handled) ==
    LET kept == missingFrom(members, { handled[i] : i \in 1..Len(handled) }, <<>>)
    IN  kept \o SubSeq(members, Len(kept) + 1, Len(members))

\* The elements of the slice members after findMissingTypes has returned:
\* the function reads them and writes to its own slice missing.
membersAfterFindMissingTypes(members, handled) == members

\* A faulty variant of reportMessage: the separator is "," alone.
reportMessageCommaOnly(name, missing) ==
    FormatMessage(name, Join(missing, <<CommaByte>>))

\* The message of pass.Reportf for a non-empty missing list.
reportMessage(name, missing) ==
    FormatMessage(name, Join(missing, <<CommaByte, SpaceByte>>))

\* pass.ImportObjectFact(obj, &unionFact): the facts a pass sees are those
\* exported by its own package and by the packages it depends on.
ImportObjectFact(p, key) ==
    /\ key \in DOMAIN facts
    /\ key.pkg \in {p} \cup TransDeps(p)

\* The underlying type of a named type is an interface.
IsInterface(t) == \E d \in decls[t.pkg].ifaces : d.name = t.name

\* The node whose Pos() a diagnostic is reported at: the type switch
\* statement.
SwitchPos == "TypeSwitchStmt"

\* What the callback did: the point at which it returned, whether a fact
\* was imported, and the pass.Reportf calls it made (at[i] is the position
\* and msgs[i] the message of the i-th call).
Outcome(stage, found, at, msgs) ==
    [stage |-> stage, found |-> found, at |-> at, msgs |-> msgs]

\* A faulty variant of checkTypeSwitch: the members are qualified with the
\* name of the package of the pass instead of that of the interface.
checkTypeSwitchPassPkg(p, sw) ==
    IF ~sw.resolved THEN Outcome("no type", FALSE, <<>>, <<>>)
    ELSE IF sw.scrut.form # "named" \/ ~IsInterface(sw.scrut)
         THEN Outcome("not named interface", FALSE, <<>>, <<>>)
    ELSE IF ~ImportObjectFact(p, FactKey(sw.scrut.pkg, sw.scrut.name))
         THEN Outcome("no fact", FALSE, <<>>, <<>>)
    ELSE IF skipsExhaustiveness(sw.dflt)
         THEN Outcome("default", TRUE, <<>>, <<>>)
    ELSE LET unionFact == facts[FactKey(sw.scrut.pkg, sw.scrut.name)]
             handledTypes == collectCaseTypes(sw.arms)
             missing == findMissingTypes(unionFact.Members, handledTypes,
                                         PkgName(p))
         IN  IF Len(missing) > 0
             THEN Outcome("checked", TRUE, <<SwitchPos>>,
                          <<reportMessage(sw.scrut.name, missing)>>)
             ELSE Outcome("checked", TRUE, <<>>, <<>>)

\* A faulty variant of checkTypeSwitch: one pass.Reportf call for each
\* missing type.
checkTypeSwitchPerMissing(p, sw) ==
    IF ~sw.resolved THEN Outcome("no type", FALSE, <<>>, <<>>)
    ELSE IF sw.scrut.form # "named" \/ ~IsInterface(sw.scrut)
         THEN Outcome("not named interface", FALSE, <<>>, <<>>)
    ELSE IF ~ImportObjectFact(p, FactKey(sw.scrut.pkg, sw.scrut.name))
         THEN Outcome("no fact", FALSE, <<>>, <<>>)
    ELSE IF skipsExhaustiveness(sw.dflt)
         THEN Outcome("default", TRUE, <<>>, <<>>)
    ELSE LET unionFact == facts[FactKey(sw.scrut.pkg, sw.scrut.name)]
             handledTypes == collectCaseTypes(sw.arms)
             missing == findMissingTypes(unionFact.Members, handledTypes,
                                         PkgName(sw.scrut.pkg))
         IN  Outcome("checked", TRUE,
                     [i \in DOMAIN missing |-> SwitchPos],
                     [i \in DOMAIN missing |->
                         reportMessage(sw.scrut.name, <<missing[i]>>)])

\* The callback of checkTypeSwitches for one type switch sw of package p:
\* the point at which it returns, whether a fact was imported, and the
\* messages it reported.
checkTypeSwitch(p, sw) ==
    IF ~sw.resolved THEN Outcome("no type", FALSE, <<>>, <<>>)
    ELSE IF sw.scrut.form # "named" \/ ~IsInterface(sw.scrut)
         THEN Outcome("not named interface", FALSE, <<>>, <<>>)
    ELSE IF ~ImportObjectFact(p, FactKey(sw.scrut.pkg, sw.scrut.name))
         THEN Outcome("no fact", FALSE, <<>>, <<>>)
    ELSE IF skipsExhaustiveness(sw.dflt)
         THEN Outcome("default", TRUE, <<>>, <<>>)
    ELSE LET unionFact == facts[FactKey(sw.scrut.pkg, sw.scrut.name)]
             handledTypes == collectCaseTypes(sw.arms)
             missing == findMissingTypes(unionFact.Members, handledTypes,
                                         PkgName(sw.scrut.pkg))
         IN  IF Len(missing) > 0
             THEN Outcome("checked", TRUE, <<SwitchPos>>,
                          <<reportMessage(sw.scrut.name, missing)>>)
             ELSE Outcome("checked", TRUE, <<>>, <<>>)

(***************************************************************************)
(* The type switches a package can contain.                                *)
(***************************************************************************)
\* The type d, or the pointer to it, implements the interface iface of
\* package q: its method set has every method of the interface, with the
\* same signature.  The compiler accepts a concrete case type only if it
\* implements the type of the switched expression.
Implements(q, d, ptr, iface) ==
    \A i \in 1..Len(iface.methods) :
        \E m \in d.methods :
            /\ m.name = iface.methods[i].name
            /\ (Exported(m.name) \/ m.pkg = q)
            /\ m.params = iface.methods[i].params
            /\ m.results = iface.methods[i].results
            /\ (m.recv = "value" \/ ptr)

\* The types a case clause of a switch in package p on interface iface of
\* package q can list: the types that implement it, declared in p or in a
\* package p depends on, and interface{}.
ArmCandidates(p, q, iface) ==
    UNION { { NamedT(r, d.name)
                : d \in { e \in decls[r].types : Implements(q, e, FALSE, iface) } }
              \cup
            { PointerT(r, d.name)
                : d \in { e \in decls[r].types : Implements(q, e, TRUE, iface) } }
            : r \in {p} \cup TransDeps(p) }
        \cup {EmptyIfaceT}

\* The elements of a finite set in some fixed order.
SeqOfSet(S) ==
    CHOOSE f \in [1..Cardinality(S) -> S] : \A x \in S : \E i \in DOMAIN f : f[i] = x

ArmSeqs(p, q, iface) ==
    { SeqOfSet(A) : A \in { B \in SUBSET ArmCandidates(p, q, iface) : Cardinality(B) <= MaxArms } }

\* The default clauses of the type switches that are enumerated.
SiteDefaults ==
    { NoDefault,
      Default(<<>>),
      Default(<<PanicStmt>>),
      Default(<<PrintlnStmt, PanicStmt>>),
      Default(<<ReturnStmt(<<NilResult>>)>>),
      Default(<<ReturnStmt(<<PlainResult>>)>>),
      Default(<<ReturnStmt(<<PlainResult, ErrResult>>)>>),
      Default(<<FailStmt>>),
      Default(<<ReturnStmt(<<PtrErrResult>>)>>),
      Default(<<PrintlnStmt, ReturnStmt(<<PlainResult, ErrResult>>)>>) }

Switch(res, t, arms, dflt) ==
    [resolved |-> res, scrut |-> t, arms |-> arms, dflt |-> dflt]

\* The type switches that can occur in package p: on an expression without
\* recorded type, on an interface{} value, or on a value of an interface
\* declared in p or in a package p depends on.
Switches(p) ==
    { Switch(res, EmptyIfaceT, <<>>, d) : res \in BOOLEAN, d \in SiteDefaults }
        \cup
    UNION { UNION { { Switch(TRUE, NamedT(q, iface.name), arms, d)
                        : arms \in ArmSeqs(p, q, iface), d \in SiteDefaults }
                    : iface \in decls[q].ifaces }
            : q \in {p} \cup TransDeps(p) }

(***************************************************************************)
(* The analysis run.                                                       *)
(***************************************************************************)
NoFacts == [k \in {} |-> {}]

Init ==
    /\ imports \in ImportGraphs
    /\ \E d \in HomeDecls :
          decls = [p \in Pkgs |-> IF p = "union" THEN d ELSE EmptyDecl]
    /\ pc = [p \in Pkgs |-> "ready"]
    /\ facts = NoFacts
    /\ exports = NoFacts
    /\ site = [p \in Pkgs |-> NoSite]
    /\ missed = {}
    /\ cls = NoCls

\* The driver starts the pass over a package when the passes over the
\* packages it imports have returned (the analyzer declares FactTypes).
DepsAnalyzed(p) == \A q \in imports[p] : pc[q] = "done"

\* A faulty variant of checkTypeSwitchesRuns: run calls checkTypeSwitches
\* before exportUnionFacts.
checkTypeSwitchesRunsFirst(p) == pc[p] = "ready" /\ DepsAnalyzed(p)

\* run calls checkTypeSwitches after exportUnionFacts has returned.
checkTypeSwitchesRuns(p) == pc[p] = "phase2"

\* The interface objects for which the callback's ImportObjectFact found
\* no fact.
MissedBy(p, sw, out) ==
    IF out.stage = "no fact" THEN {FactKey(sw.scrut.pkg, sw.scrut.name)} ELSE {}

\* run, phase 1: exportUnionFacts(pass, inspect).
ExportFacts(p) ==
    /\ pc[p] = "ready"
    /\ DepsAnalyzed(p)
    /\ \E order \in MapOrders(unionInterfaces(p)) :
          /\ facts' = exportUnionFacts(p, order)
          /\ exports' = recordCalls(exports, exportCalls(p, order))
    /\ pc' = [pc EXCEPT ![p] = "phase2"]
    /\ UNCHANGED <<imports, decls, site, missed, cls>>

\* The fact store after the callback: ImportObjectFact copies the fact
\* value, so that unionFact.Members shares its elements with the stored
\* fact, and the callback hands that slice to findMissingTypes.
factsAfterCallback(sw, out) ==
    IF out.stage # "checked" THEN facts
    ELSE LET key == FactKey(sw.scrut.pkg, sw.scrut.name)
         IN  [facts EXCEPT ![key].Members =
                 membersAfterFindMissingTypes(@, collectCaseTypes(sw.arms))]

\* A faulty variant of passAfterCallback: a type switch for which no fact
\* is imported ends the traversal.
passStopsWithoutFact(out) == IF out.found THEN "phase2" ELSE "done"

\* Where the pass stands when the callback has returned: Preorder goes on
\* with the traversal, whatever the callback did.
passAfterCallback(out) == "phase2"

\* run, phase 2: inspect.Preorder invokes the callback on the next type
\* switch of the package.
CheckTypeSwitch(p) ==
    /\ checkTypeSwitchesRuns(p)
    /\ ~site[p].visited
    /\ \E sw \in Switches(p) :
          LET out == checkTypeSwitch(p, sw)
          IN  /\ site' = [site EXCEPT ![p] =
                            [visited |-> TRUE, sw |-> sw, out |-> out]]
              /\ missed' = missed \cup MissedBy(p, sw, out)
              /\ facts' = factsAfterCallback(sw, out)
              /\ pc' = [pc EXCEPT ![p] = passAfterCallback(out)]
    /\ UNCHANGED <<imports, decls, exports, cls>>

\* The callback has returned; the traversal goes on.
NextNode(p) ==
    /\ site[p].visited
    /\ site' = [site EXCEPT ![p] = NoSite]
    /\ UNCHANGED <<imports, decls, pc, facts, exports, missed, cls>>

\* run returns: the traversal found no further type switch.
Return(p) ==
    /\ pc[p] = "phase2"
    /\ ~site[p].visited
    /\ pc' = [pc EXCEPT ![p] = "done"]
    /\ UNCHANGED <<imports, decls, facts, exports, site, missed, cls>>

Next ==
    \E p \in Pkgs :
        ExportFacts(p) \/ CheckTypeSwitch(p) \/ NextNode(p) \/ Return(p)

Spec == Init /\ [][Next]_vars

(***************************************************************************)
(* Runs over packages that declare interfaces and types of every shape     *)
(* and contain no type switch.                                             *)
(***************************************************************************)
InitScan ==
    /\ imports \in ImportGraphs
    /\ \E d \in ScanDecls : \E c \in ConsumerDecls(imports["consumer"]) :
          decls = [p \in Pkgs |-> IF p = "union" THEN d ELSE c]
    /\ pc = [p \in Pkgs |-> "ready"]
    /\ facts = NoFacts
    /\ exports = NoFacts
    /\ site = [p \in Pkgs |-> NoSite]
    /\ missed = {}
    /\ cls = NoCls

NextScan == \E p \in Pkgs : ExportFacts(p) \/ Return(p)

SpecScan == InitScan /\ [][NextScan]_vars

(***************************************************************************)
(* Runs in which "union" declares two sealed interfaces and has type       *)
(* switches, and "consumer" has declarations and no type switch.           *)
(***************************************************************************)
InitPair ==
    /\ imports \in ImportGraphs
    /\ \E d \in PairDecls : \E c \in ConsumerDecls(imports["consumer"]) :
          decls = [p \in Pkgs |-> IF p = "union" THEN d ELSE c]
    /\ pc = [p \in Pkgs |-> "ready"]
    /\ facts = NoFacts
    /\ exports = NoFacts
    /\ site = [p \in Pkgs |-> NoSite]
    /\ missed = {}
    /\ cls = NoCls

NextPair ==
    \/ \E p \in Pkgs : ExportFacts(p) \/ Return(p)
    \/ CheckTypeSwitch("union")
    \/ NextNode("union")

SpecPair == InitPair /\ [][NextPair]_vars

(***************************************************************************)
(* Runs in which "consumer" imports "union" and declares types that embed  *)
(* types of "union".                                                       *)
(***************************************************************************)
InitEmbed ==
    /\ imports = [p \in Pkgs |-> IF p = "consumer" THEN {"union"} ELSE {}]
    /\ \E d \in HomeDecls : \E c \in EmbedDecls :
          /\ \E t \in d.types : t.methods # {}
          /\ decls = [p \in Pkgs |-> IF p = "union" THEN d ELSE c]
    /\ pc = [p \in Pkgs |-> "ready"]
    /\ facts = NoFacts
    /\ exports = NoFacts
    /\ site = [p \in Pkgs |-> NoSite]
    /\ missed = {}
    /\ cls = NoCls

SpecEmbed == InitEmbed /\ [][Next]_vars

(***************************************************************************)
(* The classifier of default clauses on its own: a default clause is       *)
(* classified, then the same clause with other statements before its last  *)
(* one.                                                                    *)
(***************************************************************************)
Classified(dflt, before) ==
    [classified |-> TRUE,
     dflt |-> dflt,
     panics |-> defaultCaseOnlyPanics(dflt),
     returnsError |-> defaultCaseOnlyReturnsError(dflt),
     skipped |-> skipsExhaustiveness(dflt),
     before |-> before]

InitClassify ==
    /\ imports = [p \in Pkgs |-> {}]
    /\ decls = [p \in Pkgs |-> EmptyDecl]
    /\ pc = [p \in Pkgs |-> "ready"]
    /\ facts = NoFacts
    /\ exports = NoFacts
    /\ site = [p \in Pkgs |-> NoSite]
    /\ missed = {}
    /\ cls = NoCls

\* The condition of the callback is evaluated on a default clause.
ClassifyDefault ==
    /\ ~cls.classified
    /\ \E b \in Bodies : cls' = Classified(Default(b), <<>>)
    /\ UNCHANGED <<imports, decls, pc, facts, exports, site, missed>>

\* The condition is evaluated on a default clause that ends with the same
\* statement as the one before and differs in the statements before it.
ClassifyEdited ==
    /\ cls.classified
    /\ cls.dflt.body # <<>>
    /\ \E lead \in Leads :
          LET b == lead \o <<cls.dflt.body[Len(cls.dflt.body)]>>
          IN  /\ b # cls.dflt.body
              /\ cls' = Classified(Default(b),
                            <<[body |-> cls.dflt.body, skipped |-> cls.skipped]>>)
    /\ UNCHANGED <<imports, decls, pc, facts, exports, site, missed>>

NextClassify == ClassifyDefault \/ ClassifyEdited

SpecClassify == InitClassify /\ [][NextClassify]_vars

(***************************************************************************)
(* What the properties speak of, stated without the operators above.       *)
(***************************************************************************)
Range(f) == { f[i] : i \in DOMAIN f }

Drop(str, n) == SubSeq(str, n + 1, Len(str))

HasPrefix(str, pre) ==
    Len(pre) <= Len(str) /\ SubSeq(str, 1, Len(pre)) = pre

\* The index of the first ", " in str, 0 when there is none.
SepIndex(str) ==
    LET at == { i \in 1..(Len(str) - 1) :
                  str[i] = CommaByte /\ str[i + 1] = SpaceByte }
    IN  IF at = {} THEN 0 ELSE CHOOSE i \in at : \A j \in at : i <= j

\* The entries of a list separated by ", ".
RECURSIVE SplitList(_)
SplitList(str) ==
    IF SepIndex(str) = 0 THEN <<str>>
    ELSE <<SubSeq(str, 1, SepIndex(str) - 1)>>
             \o SplitList(Drop(str, SepIndex(str) + 1))

\* The part of an entry after its first '.', the entry without one.
AfterDot(entry) ==
    LET at == { i \in 1..Len(entry) : entry[i] = DotByte }
    IN  IF at = {} THEN entry
        ELSE Drop(entry, CHOOSE i \in at : \A j \in at : i <= j)

\* The callback on the type switch of p imported a fact.
Checked(p) == site[p].visited /\ site[p].out.found

\* The callback on the type switch of p reported a diagnostic.
Reported(p) == site[p].visited /\ site[p].out.msgs # <<>>

\* V: the members of the fact of the switched interface.
VariantSet(p) ==
    Range(facts[FactKey(site[p].sw.scrut.pkg, site[p].sw.scrut.name)].Members)

\* H: the identifiers of the types the case clauses name.
HandledSet(p) ==
    LET arms == site[p].sw.arms
    IN  { IF arms[i].form = "pointer" THEN <<StarByte>> \o arms[i].name
          ELSE arms[i].name
            : i \in { j \in DOMAIN arms : arms[j].form \in {"named", "pointer"} } }

MissingSet(p) == VariantSet(p) \ HandledSet(p)

\* The text of the diagnostic after "missing cases in type switch on S: ".
ListedText(p) ==
    LET head == MsgPrefix \o site[p].sw.scrut.name \o <<ColonByte, SpaceByte>>
        msg == site[p].out.msgs[1]
    IN  IF HasPrefix(msg, head) THEN Drop(msg, Len(head)) ELSE <<>>

\* The identifiers the diagnostic lists, in the order of the message.
ListedIdents(p) ==
    LET entries == SplitList(ListedText(p))
    IN  [ i \in DOMAIN entries |-> AfterDot(entries[i]) ]

NoRepeat(f) == \A i, j \in DOMAIN f : i # j => f[i] # f[j]

\* A diagnostic is reported iff V - H is not empty, and it lists exactly
\* the members of V - H, each once.
ReportsExactlyMissing(p) ==
    /\ Reported(p) <=> MissingSet(p) # {}
    /\ Len(site[p].out.msgs) <= 1
    /\ Reported(p) =>
          /\ NoRepeat(ListedIdents(p))
          /\ Range(ListedIdents(p)) = MissingSet(p)

\* The default clause is a safety guard: its last statement is a call of
\* panic, or a return with a result that is not the literal nil and has
\* the error capability, itself or through its pointer.
SafetyGuard(dflt) ==
    /\ dflt.present
    /\ dflt.body # <<>>
    /\ LET last == dflt.body[Len(dflt.body)]
       IN  \/ last.kind = "expr" /\ last.call /\ last.ident /\ last.name = "panic"
           \/ /\ last.kind = "return"
              /\ \E r \in Range(last.results) :
                    ~r.nilIdent /\ (r.impl \/ r.ptrImpl)

\* The default clause is intentional.
Intentional(dflt) == dflt.present /\ ~SafetyGuard(dflt)

StrictlyAscending(f) == \A i \in 1..(Len(f) - 1) : LexLess(f[i], f[i + 1])

(***************************************************************************)
(* C1                                                                      *)
(***************************************************************************)
\* C1: for a type switch without default clause on an interface with a
\* fact, a diagnostic is emitted iff V - H is not empty, and the
\* identifiers it lists are exactly the members of V - H, each once.
C1_NoDefaultReportsMissing ==
    \A p \in Pkgs :
        (Checked(p) /\ ~site[p].sw.dflt.present) => ReportsExactlyMissing(p)

\* A switch without default clause that handles one of two variants.
C1_Witness ==
    \E p \in Pkgs :
        /\ Checked(p) /\ ~site[p].sw.dflt.present /\ Reported(p)
        /\ Cardinality(VariantSet(p)) = 2
        /\ Cardinality(MissingSet(p)) = 1

(***************************************************************************)
(* C2                                                                      *)
(***************************************************************************)
\* C2: with a safety-guard default clause the outcome is that of the switch
\* without default clause: the diagnostic lists exactly V - H, and nothing
\* is emitted when V - H is empty.
C2_SafetyGuardReportsMissing ==
    \A p \in Pkgs :
        (Checked(p) /\ SafetyGuard(site[p].sw.dflt)) => ReportsExactlyMissing(p)

\* A switch whose default clause returns an error and that misses a variant.
C2_Witness ==
    \E p \in Pkgs :
        /\ Checked(p) /\ SafetyGuard(site[p].sw.dflt) /\ Reported(p)
        /\ LET b == site[p].sw.dflt.body IN b[Len(b)].kind = "return"
        /\ MissingSet(p) # {}

(***************************************************************************)
(* C3                                                                      *)
(***************************************************************************)
\* C3: a type switch with an intentional default clause (an empty one
\* included) never emits a diagnostic, whatever variants it leaves out.
C3_IntentionalNeverReports ==
    \A p \in Pkgs :
        (site[p].visited /\ Intentional(site[p].sw.dflt)) => ~Reported(p)

\* An intentional default clause on a switch that leaves a variant out.
C3_Witness ==
    \E p \in Pkgs :
        /\ Checked(p) /\ Intentional(site[p].sw.dflt)
        /\ site[p].sw.dflt.body # <<>>
        /\ MissingSet(p) # {}

(***************************************************************************)
(* C4                                                                      *)
(***************************************************************************)
\* C4: a type switch whose case clauses cover every variant (V is a subset
\* of H) never emits a diagnostic, whatever its default clause.
C4_CoveredNeverReports ==
    \A p \in Pkgs :
        (Checked(p) /\ VariantSet(p) \subseteq HandledSet(p)) => ~Reported(p)

\* Two variants, both handled, under a safety-guard default clause.
C4_Witness ==
    \E p \in Pkgs :
        /\ Checked(p) /\ SafetyGuard(site[p].sw.dflt)
        /\ Cardinality(VariantSet(p)) = 2
        /\ VariantSet(p) \subseteq HandledSet(p)

(***************************************************************************)
(* C5                                                                      *)
(***************************************************************************)
\* C5: a default clause whose last statement is a return is a safety guard
\* iff some returned expression that is not the literal nil has a type
\* with the error capability, itself or through its pointer; a return of
\* nothing, of literal nils only or of non-error values only is
\* intentional.
C5_ReturnClassification ==
    (cls.classified /\ cls.dflt.body # <<>>
        /\ cls.dflt.body[Len(cls.dflt.body)].kind = "return")
    => LET rs == cls.dflt.body[Len(cls.dflt.body)].results
       IN  /\ ~cls.skipped <=>
                \E r \in Range(rs) : ~r.nilIdent /\ (r.impl \/ r.ptrImpl)
           /\ (\A r \in Range(rs) : r.nilIdent \/ ~(r.impl \/ r.ptrImpl))
                => cls.skipped

\* A return of nil and of a value whose pointer type implements error.
C5_Witness ==
    /\ cls.classified
    /\ cls.dflt.body = <<ReturnStmt(<<NilResult, PtrErrResult>>)>>
    /\ ~cls.skipped

(***************************************************************************)
(* C6                                                                      *)
(***************************************************************************)
\* C6: two default clauses with the same last statement are classified
\* alike: the statements before the last one do not change whether
\* exhaustiveness is enforced.
C6_LastStatementDecides ==
    (cls.classified /\ cls.before # <<>>)
    => LET was == cls.before[1]
       IN  was.body[Len(was.body)] = cls.dflt.body[Len(cls.dflt.body)]
             => was.skipped = cls.skipped

\* A clause that ends with panic, after one that was the panic alone.
C6_Witness ==
    /\ cls.classified /\ cls.before # <<>>
    /\ cls.before[1].body = <<PanicStmt>>
    /\ cls.dflt.body = <<PrintlnStmt, PanicStmt>>
    /\ ~cls.skipped

(***************************************************************************)
(* C7                                                                      *)
(***************************************************************************)
\* The position of a member in the stored list.
MemberIndex(p, id) ==
    LET ms == facts[FactKey(site[p].sw.scrut.pkg, site[p].sw.scrut.name)].Members
    IN  CHOOSE i \in DOMAIN ms : ms[i] = id

\* C7: the missing identifiers of a diagnostic are in the relative order of
\* the stored member list, which is ascending in the byte order of the
\* unqualified identifier with its '*', and they are separated by ", ".
C7_MissingInStoredOrder ==
    \A p \in Pkgs :
        Reported(p) =>
            LET ids == ListedIdents(p)
            IN  /\ Range(ids) = MissingSet(p)
                /\ Len(ids) = Cardinality(MissingSet(p))
                /\ StrictlyAscending(ids)
                /\ \A i, j \in DOMAIN ids :
                      i < j => MemberIndex(p, ids[i]) < MemberIndex(p, ids[j])

\* Two missing variants that the scope lists in the other order: B, with a
\* pointer receiver, sorts as "*B" before "A".
C7_Witness ==
    \E p \in Pkgs :
        /\ Reported(p)
        /\ ListedIdents(p) = << <<StarByte>> \o NameOf(2), NameOf(1) >>

(***************************************************************************)
(* C8                                                                      *)
(***************************************************************************)
\* The list "pkg.id1, pkg.id2, ..." of a set of identifiers in ascending
\* order.
RECURSIVE QualifiedList(_, _)
QualifiedList(pkgName, ids) ==
    IF ids = {} THEN <<>>
    ELSE LET first == CHOOSE x \in ids : \A y \in ids : y = x \/ LexLess(x, y)
             rest == QualifiedList(pkgName, ids \ {first})
         IN  pkgName \o <<DotByte>> \o first
                \o (IF rest = <<>> THEN <<>> ELSE <<CommaByte, SpaceByte>> \o rest)

\* C8: every missing identifier is prefixed with the short name of the
\* package that declares the interface and the message names the
\* interface, whichever package holds the switch: the text is a function
\* of the interface and the missing set alone.
C8_QualifiedByDeclaringPackage ==
    \A p \in Pkgs :
        Reported(p) =>
            site[p].out.msgs[1] =
                MsgPrefix \o site[p].sw.scrut.name \o <<ColonByte, SpaceByte>>
                    \o QualifiedList(PkgName(site[p].sw.scrut.pkg), MissingSet(p))

\* A diagnostic in "consumer" on the interface of "union".
C8_Witness ==
    /\ Reported("consumer")
    /\ site["consumer"].sw.scrut.pkg = "union"

(***************************************************************************)
(* C9                                                                      *)
(***************************************************************************)
\* An interface declaration with an unexported method without parameters
\* and results.
Sealed(d) ==
    \E i \in DOMAIN d.methods :
        /\ d.methods[i].name[1] \notin 65..90
        /\ d.methods[i].params = 0
        /\ d.methods[i].results = 0

\* C9: a package's type switches are checked only after its own fact
\* export and that of every package it depends on, so that a fact import
\* for an interface of the package or of a dependency never misses a fact
\* that is exported later in the run.
C9_FactsBeforeChecks ==
    /\ \A p \in Pkgs :
          site[p].visited =>
              /\ \A q \in {p} \cup TransDeps(p) : pc[q] \in {"phase2", "done"}
              /\ \A q \in {p} \cup TransDeps(p) :
                    \A d \in decls[q].ifaces :
                        (Sealed(d) /\ site[p].sw.resolved
                            /\ site[p].sw.scrut = NamedT(q, d.name))
                        => site[p].out.found
    /\ \A k \in missed : k \notin DOMAIN facts

\* "consumer" imports the fact of the interface of "union".
C9_Witness ==
    /\ Checked("consumer")
    /\ site["consumer"].sw.scrut.pkg = "union"
    /\ pc["union"] = "done"

(***************************************************************************)
(* C10                                                                     *)
(***************************************************************************)
\* C10: the member list of every exported fact is strictly ascending in
\* the byte order of strings, hence without repetition.
C10_MembersStrictlyAscending ==
    \A k \in DOMAIN facts :
        /\ StrictlyAscending(facts[k].Members)
        /\ NoRepeat(facts[k].Members)

\* A fact whose two members the scope lists in the other order.
C10_Witness ==
    \E k \in DOMAIN facts :
        facts[k].Members = << <<StarByte>> \o NameOf(2), NameOf(1) >>

(***************************************************************************)
(* C11                                                                     *)
(***************************************************************************)
\* The positions, in scan order, of the methods of an interface declaration
\* that are unexported and have neither parameters nor results.
Qualifying(d) ==
    { i \in DOMAIN d.methods :
        /\ d.methods[i].name[1] \notin 65..90
        /\ d.methods[i].params = 0
        /\ d.methods[i].results = 0 }

\* C11: once phase 1 of its package has run, an interface has a fact iff it
\* has a method that is unexported and has neither parameters nor
\* results; the fact records one name, that of the first such method in
\* scan order; an interface without such a method has no fact and the pass
\* over its package goes on to its end.
C11_FactIffMarkerMethod ==
    \A p \in Pkgs : \A d \in decls[p].ifaces :
        LET key == FactKey(p, d.name)
        IN  /\ key \in DOMAIN facts <=> (pc[p] # "ready" /\ Qualifying(d) # {})
            /\ key \in DOMAIN facts =>
                  \E i \in Qualifying(d) :
                      /\ \A j \in Qualifying(d) : i <= j
                      /\ facts[key].MarkerMethod = d.methods[i].name
            /\ (Qualifying(d) = {} /\ pc[p] = "phase2") => ENABLED Return(p)

\* An interface with the methods get() int and isS(): the fact records isS,
\* the second method in scan order.
C11_Witness ==
    \E d \in decls["union"].ifaces :
        /\ d.methods = <<Method(GetName, 0, 1), Method(MarkerName, 0, 0)>>
        /\ FactKey("union", d.name) \in DOMAIN facts
        /\ facts[FactKey("union", d.name)].MarkerMethod = MarkerName
        /\ \E e \in decls["union"].ifaces :
              e.methods = <<Method(OtherMarkerName, 0, 0)>>

(***************************************************************************)
(* C12                                                                     *)
(***************************************************************************)
\* The method set of the type declaration t of package q, or of the pointer
\* to it, has a method under the given unexported name.
HasMethodNamed(q, t, ptr, name) ==
    \E m \in t.methods :
        m.pkg = q /\ m.name = name /\ (ptr \/ m.recv = "value")

\* C12: the members of the fact of an interface of package q are, for each
\* type T declared at the top level of q, "T" if T has a method under the
\* discriminator's name, else "*T" if the pointer to T has one, else
\* nothing; no type gives both forms, no interface of q and no type of
\* another package gives a member.
C12_MembersByForm ==
    \A key \in DOMAIN facts :
        LET q == key.pkg
            mk == facts[key].MarkerMethod
            ms == Range(facts[key].Members)
            byValue == { t \in decls[q].types : HasMethodNamed(q, t, FALSE, mk) }
            byPointer == { t \in decls[q].types \ byValue : HasMethodNamed(q, t, TRUE, mk) }
        IN  /\ ms = { t.name : t \in byValue }
                    \cup { <<StarByte>> \o t.name : t \in byPointer }
            /\ \A t \in decls[q].types :
                  ~(t.name \in ms /\ <<StarByte>> \o t.name \in ms)
            /\ \A d \in decls[q].ifaces :
                  d.name \notin ms /\ <<StarByte>> \o d.name \notin ms
            /\ Len(facts[key].Members) <= Cardinality(decls[q].types)

\* "union" declares A with the method on the value and B with it on the
\* pointer; "consumer" declares a type A that has the method by embedding.
C12_Witness ==
    /\ FactKey("union", IfaceName) \in DOMAIN facts
    /\ facts[FactKey("union", IfaceName)].Members
          = << <<StarByte>> \o NameOf(2), NameOf(1) >>
    /\ \E t \in decls["consumer"].types :
          HasMethodNamed("union", t, FALSE, MarkerName)
    /\ pc["consumer"] = "done"

(***************************************************************************)
(* C14                                                                     *)
(***************************************************************************)
\* The type declarations of package q that the identifier id ("T" or "*T")
\* names.
TypesNamed(q, id) ==
    { t \in decls[q].types : id = t.name \/ id = <<StarByte>> \o t.name }

\* C14: a type is a member of a fact only if the method it has under the
\* discriminator's name has neither parameters nor results.
C14_MembersHaveMarkerSignature ==
    \A key \in DOMAIN facts :
        \A id \in Range(facts[key].Members) :
            \A t \in TypesNamed(key.pkg, id) :
                \A m \in t.methods :
                    (m.pkg = key.pkg /\ m.name = facts[key].MarkerMethod)
                        => (m.params = 0 /\ m.results = 0)

(***************************************************************************)
(* C13                                                                     *)
(***************************************************************************)
\* Exhaustiveness is enforced for the type switch of p: a fact was imported
\* for the switched interface, and there is no default clause or it is a
\* safety guard.
Enforced(p) == Checked(p) /\ ~Intentional(site[p].sw.dflt)

\* C13: the callback on a type switch reports at most one diagnostic, at
\* the position of the type switch statement; it reports one iff
\* exhaustiveness is enforced for the switch and a variant is missing,
\* and that diagnostic lists every missing variant.
C13_OneDiagnosticPerSwitch ==
    \A p \in Pkgs :
        site[p].visited =>
            LET out == site[p].out
            IN  /\ Len(out.msgs) <= 1
                /\ Len(out.at) = Len(out.msgs)
                /\ \A i \in DOMAIN out.at : out.at[i] = "TypeSwitchStmt"
                /\ Len(out.msgs) = 1 <=> (Enforced(p) /\ MissingSet(p) # {})
                /\ Len(out.msgs) = 1 => Range(ListedIdents(p)) = MissingSet(p)

\* A switch with a default clause that panics and two missing variants:
\* one diagnostic.
C13_Witness ==
    \E p \in Pkgs :
        /\ Enforced(p)
        /\ site[p].sw.dflt = Default(<<PanicStmt>>)
        /\ Cardinality(MissingSet(p)) = 2
        /\ Len(site[p].out.msgs) = 1

(***************************************************************************)
(* C15                                                                     *)
(***************************************************************************)
\* C15: a default clause is a safety guard by the panic rule iff its last
\* statement is an expression statement that calls panic, whatever the
\* argument; a last statement that calls another function, through a
\* package-qualified name or a plain identifier, leaves the clause
\* intentional.
C15_PanicRule ==
    (cls.classified /\ cls.dflt.body # <<>>)
    => LET last == cls.dflt.body[Len(cls.dflt.body)]
           callsPanic == /\ last.kind = "expr" /\ last.call
                         /\ last.ident /\ last.name = "panic"
       IN  /\ cls.panics <=> callsPanic
           /\ callsPanic => ~cls.skipped
           /\ (last.kind = "expr" /\ last.call /\ ~callsPanic) => cls.skipped

\* A default clause that ends with panic(fmt.Sprintf(...)).
C15_Witness ==
    /\ cls.classified
    /\ cls.dflt.body = <<PrintlnStmt, PanicSprintfStmt>>
    /\ cls.panics /\ ~cls.skipped

(***************************************************************************)
(* C16                                                                     *)
(***************************************************************************)
\* The type of the switched expression is not recorded, is not a named
\* interface type, or is an interface that is not sealed and so has no
\* fact.
Unmatched(sw) ==
    \/ ~sw.resolved
    \/ sw.scrut.form # "named"
    \/ \A d \in decls[sw.scrut.pkg].ifaces : d.name = sw.scrut.name => ~Sealed(d)

\* C16: on such a type switch the callback reports nothing, imports no
\* fact and checks against none, and the pass stays in its traversal, so
\* that the next type switch of the package is visited.
C16_UnmatchedSwitchSkipped ==
    \A p \in Pkgs :
        (site[p].visited /\ Unmatched(site[p].sw)) =>
            /\ site[p].out.msgs = <<>>
            /\ ~site[p].out.found
            /\ site[p].out.stage \in {"no type", "not named interface", "no fact"}
            /\ pc[p] = "phase2"
            /\ ENABLED NextNode(p)

\* A switch without default clause on the named interface that has only an
\* exported method, in a package with a type that has the method isS.
C16_Witness ==
    \E p \in Pkgs :
        /\ site[p].visited
        /\ site[p].out.stage = "no fact"
        /\ ~site[p].sw.dflt.present
        /\ \E t \in decls[site[p].sw.scrut.pkg].types : t.methods # {}

(***************************************************************************)
(* C17                                                                     *)
(***************************************************************************)
\* C17: for every sealed interface there is, once phase 1 of its package
\* has run, exactly one ExportObjectFact call, made by the pass over that
\* package, and none before; no object has a second call.
C17_ExportedOnce ==
    /\ \A p \in Pkgs : \A d \in decls[p].ifaces :
          LET key == FactKey(p, d.name)
          IN  IF pc[p] # "ready" /\ Sealed(d)
              THEN key \in DOMAIN exports /\ exports[key] = <<p>>
              ELSE key \notin DOMAIN exports
    /\ \A key \in DOMAIN exports : Len(exports[key]) = 1
    /\ DOMAIN exports = DOMAIN facts

\* Both packages have run; "union" declares two sealed interfaces and
\* "consumer", which imports it, one.
C17_Witness ==
    /\ \A p \in Pkgs : pc[p] = "done"
    /\ imports["consumer"] = {"union"}
    /\ Cardinality({ k \in DOMAIN exports : k.pkg = "union" }) = 2
    /\ Cardinality({ k \in DOMAIN exports : k.pkg = "consumer" }) = 1

(***************************************************************************)
(* C18                                                                     *)
(***************************************************************************)
\* C18: a step of phase 2 of a package (the callback on a type switch, the
\* missing set computed or not, the traversal going on, the pass
\* returning) leaves the fact store as it is: no fact is added, removed
\* or changed, in its discriminator or in its members.
C18_Phase2KeepsFacts ==
    [][ (\E p \in Pkgs :
            /\ pc[p] = "phase2"
            /\ (site'[p] # site[p] \/ pc'[p] = "done"))
        => facts' = facts ]_vars

\* The callback has computed a missing set from a fact with two members,
\* one of them handled.
C18_Witness ==
    \E p \in Pkgs :
        /\ Reported(p)
        /\ Cardinality(VariantSet(p)) = 2
        /\ Cardinality(MissingSet(p)) = 1
        /\ Len(site[p].sw.arms) = 2

(***************************************************************************)
(* C19                                                                     *)
(***************************************************************************)
\* The elements of a set of strings as an ascending sequence.
Ascending(S) ==
    CHOOSE f \in [1..Cardinality(S) -> S] : Range(f) = S /\ StrictlyAscending(f)

\* The fact of the sealed interface declaration d of package q, as a
\* function of the declarations of q.
FactOfDecl(q, d) ==
    LET i == CHOOSE k \in Qualifying(d) : \A j \in Qualifying(d) : k <= j
        mk == d.methods[i].name
        byValue == { t \in decls[q].types : HasMethodNamed(q, t, FALSE, mk) }
        byPointer == { t \in decls[q].types \ byValue : HasMethodNamed(q, t, TRUE, mk) }
    IN  [MarkerMethod |-> mk,
         Members |-> Ascending({ t.name : t \in byValue }
                                 \cup { <<StarByte>> \o t.name : t \in byPointer })]

\* The fact store as a function of the declarations and of the set of
\* packages whose phase 1 has run.
FactsOfInput ==
    LET keys == UNION { { FactKey(q, d.name) : d \in { e \in decls[q].ifaces : Sealed(e) } }
                        : q \in { r \in Pkgs : pc[r] # "ready" } }
    IN  [ k \in keys |->
            FactOfDecl(k.pkg, CHOOSE d \in decls[k.pkg].ifaces : d.name = k.name) ]

\* The messages reported on the type switch of p, as a function of the
\* declarations and of the switch.
MsgsOfInput(p) ==
    LET sw == site[p].sw
        sealed == { d \in decls[sw.scrut.pkg].ifaces :
                      d.name = sw.scrut.name /\ Sealed(d) }
    IN  IF ~sw.resolved \/ sw.scrut.form # "named" \/ sealed = {} THEN <<>>
        ELSE IF Intentional(sw.dflt) THEN <<>>
        ELSE LET d == CHOOSE e \in sealed : TRUE
                 M == Range(FactOfDecl(sw.scrut.pkg, d).Members) \ HandledSet(p)
             IN  IF M = {} THEN <<>>
                 ELSE << MsgPrefix \o sw.scrut.name \o <<ColonByte, SpaceByte>>
                            \o QualifiedList(PkgName(sw.scrut.pkg), M) >>

\* C19: the facts and the diagnostics are functions of the input: whatever
\* the order in which the loop of phase 1 visits the interfaces and in
\* which the passes over independent packages take their steps, the fact
\* store is the one the declarations determine, and every type switch has
\* the diagnostics the declarations and the switch determine.
C19_OutputDeterminedByInput ==
    /\ facts = FactsOfInput
    /\ \A p \in Pkgs :
          site[p].visited =>
              /\ site[p].out.msgs = MsgsOfInput(p)
              /\ site[p].out.at = [i \in DOMAIN site[p].out.msgs |-> "TypeSwitchStmt"]

\* "union" has exported the facts of two interfaces with different
\* markers and members and reports on a switch on T, after the pass over
\* "consumer", which does not import it and has a sealed interface of its
\* own, has returned.
C19_Witness ==
    /\ imports["consumer"] = {}
    /\ pc["consumer"] = "done"
    /\ FactKey("consumer", IfaceName) \in DOMAIN facts
    /\ FactKey("union", IfaceName) \in DOMAIN facts
    /\ FactKey("union", OtherIfaceName) \in DOMAIN facts
    /\ facts[FactKey("union", IfaceName)].MarkerMethod
          # facts[FactKey("union", OtherIfaceName)].MarkerMethod
    /\ facts[FactKey("union", IfaceName)].Members # <<>>
    /\ facts[FactKey("union", OtherIfaceName)].Members # <<>>
    /\ Reported("union")
    /\ site["union"].sw.scrut.name = OtherIfaceName

(***************************************************************************)
(* C20                                                                     *)
(***************************************************************************)
\* The identifiers of the variants whose own type a case clause names: the
\* case types declared in the package of the switched interface.
HandledVariants(p) ==
    LET arms == site[p].sw.arms
    IN  { IF arms[i].form = "pointer" THEN <<StarByte>> \o arms[i].name
          ELSE arms[i].name
            : i \in { j \in DOMAIN arms :
                        /\ arms[j].form \in {"named", "pointer"}
                        /\ arms[j].pkg = site[p].sw.scrut.pkg } }

\* C20: where exhaustiveness is enforced, every variant whose own type no
\* case clause names is reported as missing, also when a case clause names
\* a type of another package with the same short name and pointer marker.
C20_HandledByOwnType ==
    \A p \in Pkgs :
        Enforced(p) =>
            \A id \in VariantSet(p) \ HandledVariants(p) :
                Reported(p) /\ id \in Range(ListedIdents(p))

(***************************************************************************)
(* C21                                                                     *)
(***************************************************************************)
\* The interface declaration a fact belongs to.
DeclOfKey(key) == CHOOSE d \in decls[key.pkg].ifaces : d.name = key.name

\* C21, as claimed: every member of a fact denotes a type that implements
\* the whole interface, the member "*T" through the pointer to T; a type
\* that has the discriminator method, with its signature, and lacks
\* another method of the interface is not a member.
C21_MembersImplementContract ==
    \A key \in DOMAIN facts :
        \A id \in Range(facts[key].Members) :
            \A t \in TypesNamed(key.pkg, id) :
                (\E m \in t.methods :
                    /\ m.pkg = key.pkg /\ m.name = facts[key].MarkerMethod
                    /\ m.params = 0 /\ m.results = 0)
                => Implements(key.pkg, t, id # t.name, DeclOfKey(key))

\* C21, amended: every member of a fact denotes a type of the interface's
\* package that has, itself or through its pointer, a method under the
\* discriminator's name, and every such type is a member, whether or not
\* it has the other methods of the interface.
C21_MembersHaveDiscriminatorOnly ==
    \A key \in DOMAIN facts :
        LET q == key.pkg
            mk == facts[key].MarkerMethod
            ms == Range(facts[key].Members)
        IN  /\ \A id \in ms :
                  \E t \in decls[q].types :
                      \/ id = t.name /\ HasMethodNamed(q, t, FALSE, mk)
                      \/ /\ id = <<StarByte>> \o t.name
                         /\ HasMethodNamed(q, t, TRUE, mk)
            /\ \A t \in decls[q].types :
                  HasMethodNamed(q, t, TRUE, mk) =>
                      (t.name \in ms \/ <<StarByte>> \o t.name \in ms)

\* The interface S has the methods Do() and isS(); the type A has isS()
\* alone, does not implement S, and is a member of the fact of S.
C21_Witness ==
    /\ FactKey("union", IfaceName) \in DOMAIN facts
    /\ DeclOfKey(FactKey("union", IfaceName)).methods
          = <<Method(ExportedName, 0, 0), Method(MarkerName, 0, 0)>>
    /\ NameOf(1) \in Range(facts[FactKey("union", IfaceName)].Members)
    /\ \E t \in decls["union"].types :
          /\ t.name = NameOf(1)
          /\ t.methods = {TypeMethod("union", MarkerName, "value", 0, 0)}
          /\ ~Implements("union", t, TRUE, DeclOfKey(FactKey("union", IfaceName)))

====
